---- MODULE Spec2Model ----
(***************************************************************************)
(* A model of src/app.py: the rembg background-removal API server.         *)
(*                                                                         *)
(* The process imports the module (configuration read from the            *)
(* environment, model session loaded), then serves three endpoints from   *)
(* concurrently running request threads:                                  *)
(*   GET  /health      health()                                           *)
(*   GET  /models      list_models()                                      *)
(*   POST /remove-bg   remove_background()                                *)
(* remove_background is modelled stage by stage (input resolution, mode   *)
(* normalisation, size normalisation, model invocation, output encoding); *)
(* the threads interleave between stages.  The external collaborators     *)
(* (the network, Pillow's decoder, rembg's remove, the PNG encoder) are   *)
(* modelled by their outcomes, drawn nondeterministically.                *)
(***************************************************************************)
EXTENDS Integers, Sequences, FiniteSets, TLC

VARIABLES
    environ,         \* os.environ: the two variables the module reads
    mainpc,          \* position of the process: "import", "serving", "exited"
    MODEL_NAME,      \* module global, line 30
    MAX_IMAGE_SIZE,  \* module global, line 31
    session,         \* module global, line 36
    pc,              \* per thread: position of the request it is handling
    data,            \* per thread: the request payload (request.get_json())
    image,           \* per thread: local `image` of remove_background
    original_size,   \* per thread: local `original_size`
    response,        \* per thread: the response the handler returned
    stages,          \* per thread: the stages of remove_background entered so far
    fetches,         \* per thread: outbound requests.get calls made
    caught,          \* per thread: the exception an except clause caught
    probe            \* a single call of resize_if_needed on chosen arguments

vars == <<environ, mainpc, MODEL_NAME, MAX_IMAGE_SIZE, session, pc, data, image,
          original_size, response, stages, fetches, caught, probe>>

server_vars == <<environ, mainpc, MODEL_NAME, MAX_IMAGE_SIZE, session, pc, data,
                 image, original_size, response, stages, fetches, caught>>

-----------------------------------------------------------------------------
(* Bounds of the model *)

\* request threads running concurrently
Threads == {1, 2}

\* image widths and heights a request can carry: 1..MaxDim
MaxDim == 2

\* the value MAX_IMAGE_SIZE is configured to when the environment sets it
EnvMaxImageSize == 1

\* widths and heights given to a direct call of resize_if_needed: 1..MaxSide
MaxSide == 8

\* max_size arguments given to a direct call of resize_if_needed: 1..MaxThreshold
MaxThreshold == 4

-----------------------------------------------------------------------------
(* Configuration, lines 30-31 *)

Unset == "<unset>"

\* int(os.environ.get('MAX_IMAGE_SIZE', 2048))
DefaultMaxImageSize == 2048

\* os.environ.get('REMBG_MODEL', 'u2net')
DefaultModelName == "u2net"

EnvModelNames == {Unset, "birefnet-general"}

\* the variable is absent (the empty tuple) or holds one number
EnvMaxImageSizes == {<<>>, <<EnvMaxImageSize>>}

ConfiguredModelName(env) ==
    IF env.REMBG_MODEL = Unset THEN DefaultModelName ELSE env.REMBG_MODEL

ConfiguredMaxImageSize(env) ==
    IF env.MAX_IMAGE_SIZE = <<>> THEN DefaultMaxImageSize ELSE env.MAX_IMAGE_SIZE[1]

NoSession == [loaded |-> FALSE, model |-> Unset]

\* new_session(MODEL_NAME): the handle of the loaded model
new_session(name) == [loaded |-> TRUE, model |-> name]

-----------------------------------------------------------------------------
(* Images and exceptions *)

Dims == 1..MaxDim

\* a mode the handler keeps and a mode it converts (line 124)
InputModes == {"RGB", "L"}

NoImage == [size |-> <<0, 0>>, mode |-> "<none>"]

NoSize == <<0, 0>>

NoException == [cls |-> "<none>", origin |-> "<none>"]

Raise(cls, origin) == [cls |-> cls, origin |-> origin]

\* except requests.RequestException (line 167): the classes of the requests
\* library that fetch_image_from_url can raise
IsRequestException(exc) == exc.cls \in {"ConnectionError", "HTTPError"}

-----------------------------------------------------------------------------
(* resize_if_needed, lines 59-70 *)

\* a variant of TruncatedProduct that rounds to the nearest integer, as
\* round((small / large) * max_size) would
RoundedProduct(small, large, max_size) == (2 * small * max_size + large) \div (2 * large)

\* int((small / large) * max_size): the double-precision product truncated
\* toward zero.  For max_size <= 21 and for max_size = 2048 the truncated
\* double equals the exact floor of small * max_size / large for every
\* 1 <= small <= large in the model's range, so integer division computes it.
TruncatedProduct(small, large, max_size) == (small * max_size) \div large

\* a variant of ExceedsMax with the comparisons turned around
ExceedsMaxFlipped(width, height, max_size) == width < max_size \/ height < max_size

\* line 62
ExceedsMax(width, height, max_size) == width > max_size \/ height > max_size

\* lines 63-68: the size handed to image.resize
new_size(width, height, max_size) ==
    IF width > height
    THEN <<max_size, TruncatedProduct(height, width, max_size)>>
    ELSE <<TruncatedProduct(width, height, max_size), max_size>>

\* Image.resize (Pillow): a requested size with a dimension below 1 raises
\* ValueError("height and width must be > 0")
ImageResize(size) ==
    IF size[1] < 1 \/ size[2] < 1
    THEN [raised |-> TRUE, size |-> NoSize]
    ELSE [raised |-> FALSE, size |-> size]

resize_if_needed(size, max_size) ==
    IF ExceedsMax(size[1], size[2], max_size)
    THEN ImageResize(new_size(size[1], size[2], max_size))
    ELSE [raised |-> FALSE, size |-> size]

-----------------------------------------------------------------------------
(* The initial state: the process before the module body has run *)

NoResponse == [status |-> 0, kind |-> "<none>", body |-> [none |-> TRUE]]

NoData == [kind |-> "<none>", keys |-> {}, return_format |-> Unset]

NoProbe == [pc |-> "off", width |-> 0, height |-> 0, max_size |-> 0,
            raised |-> FALSE, size |-> NoSize]

Environments == [REMBG_MODEL : EnvModelNames, MAX_IMAGE_SIZE : EnvMaxImageSizes]

InitServer ==
    /\ mainpc = "import"
    /\ MODEL_NAME = Unset
    /\ MAX_IMAGE_SIZE = 0
    /\ session = NoSession
    /\ pc = [t \in Threads |-> "idle"]
    /\ data = [t \in Threads |-> NoData]
    /\ image = [t \in Threads |-> NoImage]
    /\ original_size = [t \in Threads |-> NoSize]
    /\ response = [t \in Threads |-> NoResponse]
    /\ stages = [t \in Threads |-> <<>>]
    /\ fetches = [t \in Threads |-> 0]
    /\ caught = [t \in Threads |-> NoException]

Init ==
    /\ environ \in Environments
    /\ InitServer
    /\ probe = NoProbe

-----------------------------------------------------------------------------
(* Module import, lines 30-37 *)

\* The module body: configuration is read, then the model is loaded.  If
\* new_session raises, the import fails and the process never serves.
ModuleImport ==
    /\ mainpc = "import"
    /\ MODEL_NAME' = ConfiguredModelName(environ)
    /\ MAX_IMAGE_SIZE' = ConfiguredMaxImageSize(environ)
    /\ \E loaded \in BOOLEAN :
          IF loaded
          THEN /\ session' = new_session(ConfiguredModelName(environ))
               /\ mainpc' = "serving"
          ELSE /\ session' = session
               /\ mainpc' = "exited"
    /\ UNCHANGED <<environ, pc, data, image, original_size, response, stages,
                   fetches, caught, probe>>

-----------------------------------------------------------------------------
(* Responses *)

Json(status, body) == [status |-> status, kind |-> "json", body |-> body]

\* jsonify({'error': ...}), status
ErrorResponse(status, message) == Json(status, [error |-> message])

\* a variant of StatusOfException with the two statuses exchanged
StatusOfExceptionSwapped(exc) == IF IsRequestException(exc) THEN 500 ELSE 400

\* the two except clauses of remove_background, lines 167-170
StatusOfException(exc) == IF IsRequestException(exc) THEN 400 ELSE 500

MessageOfException(exc) ==
    IF IsRequestException(exc)
    THEN "Failed to fetch image: " \o exc.cls
    ELSE exc.cls

HandleException(exc) == ErrorResponse(StatusOfException(exc), MessageOfException(exc))

\* a variant of HealthBody that reports the built-in default model
HealthBodyDefaultModel ==
    [status |-> "healthy", model |-> DefaultModelName, max_image_size |-> MAX_IMAGE_SIZE]

\* lines 85-89
HealthBody ==
    [status |-> "healthy", model |-> MODEL_NAME, max_image_size |-> MAX_IMAGE_SIZE]

\* lines 176-184
AvailableModels ==
    {"u2net", "birefnet-general", "isnet-general-use", "u2net_human_seg"}

ModelsBody == [current |-> MODEL_NAME, available |-> AvailableModels]

-----------------------------------------------------------------------------
(* The GET handlers *)

\* a thread is free to take a request once the process serves and the thread
\* has returned from its previous handler
Free(t) == mainpc = "serving" /\ pc[t] \in {"idle", "done"}

\* a handler starts with fresh locals; d is the payload of its request
Begin(t, d) ==
    /\ data' = [data EXCEPT ![t] = d]
    /\ image' = [image EXCEPT ![t] = NoImage]
    /\ original_size' = [original_size EXCEPT ![t] = NoSize]
    /\ stages' = [stages EXCEPT ![t] = <<>>]
    /\ fetches' = [fetches EXCEPT ![t] = 0]
    /\ caught' = [caught EXCEPT ![t] = NoException]

Globals == <<environ, mainpc, MODEL_NAME, MAX_IMAGE_SIZE, session>>

\* health(), lines 82-89
Health(t) ==
    /\ Free(t)
    /\ Begin(t, NoData)
    /\ pc' = [pc EXCEPT ![t] = "done"]
    /\ response' = [response EXCEPT ![t] =
                       [status |-> 200, kind |-> "health", body |-> HealthBody]]
    /\ UNCHANGED <<Globals, probe>>

\* list_models(), lines 173-184
ListModels(t) ==
    /\ Free(t)
    /\ Begin(t, NoData)
    /\ pc' = [pc EXCEPT ![t] = "done"]
    /\ response' = [response EXCEPT ![t] =
                       [status |-> 200, kind |-> "models", body |-> ModelsBody]]
    /\ UNCHANGED <<Globals, probe>>

-----------------------------------------------------------------------------
(* POST /remove-bg: the payload *)

ImageKeys == {"imageData", "imageUrl"}

PayloadKeys == ImageKeys \cup {"return_format"}

\* the one value of return_format the handler tells from the default
ReturnFormats == {"binary"}

\* the request bodies: one that is not JSON, the JSON value null, and JSON
\* objects over the keys the handler reads
Payloads ==
    {[kind |-> "malformed", keys |-> {}, return_format |-> Unset],
     [kind |-> "null", keys |-> {}, return_format |-> Unset]}
    \cup
    {[kind |-> "object", keys |-> k, return_format |-> f] :
        k \in SUBSET PayloadKeys, f \in ReturnFormats \cup {Unset}}

WellFormed(d) ==
    d.kind = "object" => (("return_format" \in d.keys) <=> (d.return_format # Unset))

\* `not data`, line 111: None and the empty object are both falsy
Falsy(d) == d.kind = "null" \/ (d.kind = "object" /\ d.keys = {})

\* a variant of SelectSource that tests imageUrl first
SelectSourceUrlFirst(d) ==
    IF "imageUrl" \in d.keys THEN "url"
    ELSE IF "imageData" \in d.keys THEN "inline"
    ELSE "none"

\* lines 116-121: which image source the handler takes
SelectSource(d) ==
    IF "imageData" \in d.keys THEN "inline"
    ELSE IF "imageUrl" \in d.keys THEN "url"
    ELSE "none"

\* data.get('return_format', 'base64')
ReturnFormatOf(d) ==
    IF "return_format" \in d.keys THEN d.return_format ELSE "base64"

Images == [size : Dims \X Dims, mode : InputModes]

-----------------------------------------------------------------------------
(* decode_base64_image, lines 40-49 *)

\* What an imageData value can be: its form (not a string, a data URL with
\* or without a comma, a bare string), whether the part after the comma is
\* valid base64, and the image the decoded bytes hold (NoImage when the bytes
\* are no image).
InlineValues ==
    [form : {"not_a_string", "data_url", "data_no_comma", "bare"},
     base64_valid : BOOLEAN,
     image : Images \cup {NoImage}]

Returned(img) == [exc |-> NoException, image |-> img]

Raised(cls, origin) == [exc |-> Raise(cls, origin), image |-> NoImage]

decode_base64_image(v) ==
    IF v.form = "not_a_string"
    THEN Raised("AttributeError", "decode_base64_image")      \* line 42
    ELSE IF v.form = "data_no_comma"
    THEN Raised("ValueError", "decode_base64_image")          \* line 44
    ELSE IF ~v.base64_valid
    THEN Raised("binascii.Error", "decode_base64_image")      \* line 48
    ELSE IF v.image = NoImage
    THEN Raised("UnidentifiedImageError", "decode_base64_image")  \* line 49
    ELSE Returned(v.image)

-----------------------------------------------------------------------------
(* fetch_image_from_url, lines 52-56 *)

\* What the network answers for a URL: whether the host answers within the
\* timeout, the HTTP status, and the image the body holds (NoImage when the
\* body is no image).
UrlAnswers ==
    [reachable : BOOLEAN, status : {200, 404}, image : Images \cup {NoImage}]

fetch_image_from_url(a) ==
    IF ~a.reachable
    THEN Raised("ConnectionError", "fetch_image_from_url")         \* line 54
    ELSE IF a.status >= 400
    THEN Raised("HTTPError", "fetch_image_from_url")               \* line 55
    ELSE IF a.image = NoImage
    THEN Raised("UnidentifiedImageError", "fetch_image_from_url")  \* line 56
    ELSE Returned(a.image)


-----------------------------------------------------------------------------
(* remove_background, lines 92-170, stage by stage *)

\* a variant of StageAfter that calls the model before normalising the size
StageAfterModelFirst(stage) ==
    CASE stage = "resolve" -> "mode"
      [] stage = "mode" -> "remove"
      [] stage = "remove" -> "size"
      [] stage = "size" -> "encode"
      [] stage = "encode" -> "done"

\* the position after stage `stage` completes normally
StageAfter(stage) ==
    CASE stage = "resolve" -> "mode"
      [] stage = "mode" -> "size"
      [] stage = "size" -> "remove"
      [] stage = "remove" -> "encode"
      [] stage = "encode" -> "done"

Enter(t, stage) == stages' = [stages EXCEPT ![t] = Append(@, stage)]

\* a return statement of the handler: the response goes out and the locals
\* holding images are dropped with the frame
Return(t, resp) ==
    /\ pc' = [pc EXCEPT ![t] = "done"]
    /\ response' = [response EXCEPT ![t] = resp]
    /\ image' = [image EXCEPT ![t] = NoImage]
    /\ original_size' = [original_size EXCEPT ![t] = NoSize]

\* an exception propagates to the except clauses, lines 167-170
Except(t, exc) ==
    /\ caught' = [caught EXCEPT ![t] = exc]
    /\ Return(t, HandleException(exc))

Continue(t, stage) ==
    /\ pc' = [pc EXCEPT ![t] = StageAfter(stage)]
    /\ UNCHANGED <<response, caught>>

\* POST /remove-bg arrives at a free thread
Receive(t) ==
    /\ Free(t)
    /\ \E d \in Payloads : WellFormed(d) /\ Begin(t, d)
    /\ pc' = [pc EXCEPT ![t] = "resolve"]
    /\ response' = [response EXCEPT ![t] = NoResponse]
    /\ UNCHANGED <<Globals, probe>>

\* lines 109-121
ResolveInput(t) ==
    /\ mainpc = "serving"
    /\ pc[t] = "resolve"
    /\ Enter(t, "resolve")
    /\ LET d == data[t] IN
       IF d.kind = "malformed"
       THEN \* request.get_json() raises inside the try block
            /\ Except(t, Raise("BadRequest", "get_json"))
            /\ UNCHANGED fetches
       ELSE IF Falsy(d)
       THEN /\ Return(t, ErrorResponse(400, "No JSON data provided"))
            /\ UNCHANGED <<fetches, caught>>
       ELSE IF SelectSource(d) = "inline"
       THEN /\ \E v \in InlineValues :
                 LET r == decode_base64_image(v) IN
                 IF r.exc # NoException
                 THEN Except(t, r.exc)
                 ELSE /\ image' = [image EXCEPT ![t] = r.image]
                      /\ Continue(t, "resolve")
                      /\ UNCHANGED original_size
            /\ UNCHANGED fetches
       ELSE IF SelectSource(d) = "url"
       THEN /\ fetches' = [fetches EXCEPT ![t] = @ + 1]
            /\ \E a \in UrlAnswers :
                 LET r == fetch_image_from_url(a) IN
                 IF r.exc # NoException
                 THEN Except(t, r.exc)
                 ELSE /\ image' = [image EXCEPT ![t] = r.image]
                      /\ Continue(t, "resolve")
                      /\ UNCHANGED original_size
       ELSE /\ Return(t, ErrorResponse(400, "No image provided. Use imageData or imageUrl"))
            /\ UNCHANGED <<fetches, caught>>
    /\ UNCHANGED <<Globals, data, probe>>

\* lines 124-125
NormaliseMode(t) ==
    /\ mainpc = "serving"
    /\ pc[t] = "mode"
    /\ Enter(t, "mode")
    /\ image' = [image EXCEPT ![t].mode =
                    IF @ \notin {"RGB", "RGBA"} THEN "RGBA" ELSE @]
    /\ Continue(t, "mode")
    /\ UNCHANGED <<Globals, data, original_size, fetches, probe>>

\* lines 128-129
NormaliseSize(t) ==
    /\ mainpc = "serving"
    /\ pc[t] = "size"
    /\ Enter(t, "size")
    /\ LET r == resize_if_needed(image[t].size, MAX_IMAGE_SIZE) IN
       IF r.raised
       THEN Except(t, Raise("ValueError", "resize_if_needed"))
       ELSE /\ original_size' = [original_size EXCEPT ![t] = image[t].size]
            /\ image' = [image EXCEPT ![t].size = r.size]
            /\ Continue(t, "size")
    /\ UNCHANGED <<Globals, data, fetches, probe>>

\* lines 132-142: rembg's remove returns the cut-out image or raises
InvokeRemove(t) ==
    /\ mainpc = "serving"
    /\ pc[t] = "remove"
    /\ Enter(t, "remove")
    /\ \E returned \in BOOLEAN :
          IF returned
          THEN Continue(t, "remove") /\ UNCHANGED <<image, original_size>>
          ELSE Except(t, Raise("RuntimeError", "remove"))
    /\ UNCHANGED <<Globals, data, fetches, probe>>

\* the JSON success envelope, lines 159-165 (processingTime left out: it is
\* a wall-clock reading)
SuccessBody(t) ==
    [success |-> TRUE, dataUrl |-> "data:image/png;base64,",
     originalSize |-> original_size[t], processedSize |-> image[t].size]

\* lines 144-165: the PNG encoder returns or raises
EncodeOutput(t) ==
    /\ mainpc = "serving"
    /\ pc[t] = "encode"
    /\ Enter(t, "encode")
    /\ \E encoded \in BOOLEAN :
          IF ~encoded
          THEN Except(t, Raise("OSError", "save"))
          ELSE /\ caught' = caught
               /\ IF ReturnFormatOf(data[t]) = "binary"
                  THEN Return(t, [status |-> 200, kind |-> "png", body |-> [png |-> TRUE]])
                  ELSE Return(t, Json(200, SuccessBody(t)))
    /\ UNCHANGED <<Globals, data, fetches, probe>>

-----------------------------------------------------------------------------
(* The server *)

Next ==
    \/ ModuleImport
    \/ \E t \in Threads : Health(t)
    \/ \E t \in Threads : ListModels(t)
    \/ \E t \in Threads : Receive(t)
    \/ \E t \in Threads : ResolveInput(t)
    \/ \E t \in Threads : NormaliseMode(t)
    \/ \E t \in Threads : NormaliseSize(t)
    \/ \E t \in Threads : InvokeRemove(t)
    \/ \E t \in Threads : EncodeOutput(t)

Spec == Init /\ [][Next]_vars

-----------------------------------------------------------------------------
(* resize_if_needed called directly: the arguments are drawn in the initial
   state and the one action applies the function to them *)

Sides == 1..MaxSide

Thresholds == 1..MaxThreshold

InitResize ==
    /\ environ = [REMBG_MODEL |-> Unset, MAX_IMAGE_SIZE |-> <<>>]
    /\ InitServer
    /\ \E w \in Sides, h \in Sides, m \in Thresholds :
          probe = [pc |-> "call", width |-> w, height |-> h, max_size |-> m,
                   raised |-> FALSE, size |-> <<w, h>>]

CallResize ==
    /\ probe.pc = "call"
    /\ LET r == resize_if_needed(<<probe.width, probe.height>>, probe.max_size) IN
       probe' = [probe EXCEPT !.pc = "done", !.raised = r.raised, !.size = r.size]
    /\ UNCHANGED server_vars

NextResize == CallResize

SpecResize == InitResize /\ [][NextResize]_vars

-----------------------------------------------------------------------------
(* Properties *)

\* thread t has returned from remove_background
Answered(t) == pc[t] = "done" /\ data[t].kind # "<none>"

Failed(t) == Answered(t) /\ response[t].status # 200

HasErrorBody(t) ==
    /\ response[t].kind = "json"
    /\ DOMAIN response[t].body = {"error"}
    /\ response[t].body.error \in STRING

Abs(x) == IF x < 0 THEN -x ELSE x

Max(a, b) == IF a >= b THEN a ELSE b

Min(a, b) == IF a <= b THEN a ELSE b

\* the direct call had an argument above max_size
ProbeOverCap == Max(probe.width, probe.height) > probe.max_size

\* the smaller original dimension, the larger one, and the returned dimension
\* that corresponds to the smaller one
ProbeSmall == Min(probe.width, probe.height)

ProbeLarge == Max(probe.width, probe.height)

ProbeNewSmall == IF probe.width > probe.height THEN probe.size[2] ELSE probe.size[1]

ProbeNewLarge == IF probe.width > probe.height THEN probe.size[1] ELSE probe.size[2]

\* C1: every answered POST /remove-bg whose JSON object holds neither
\* imageData nor imageUrl, the empty object included, is answered 400 with
\* the body {"error": "No image provided. Use imageData or imageUrl"}.
C1_MissingInputMessage ==
    \A t \in Threads :
        (Answered(t) /\ data[t].kind = "object" /\ data[t].keys \cap ImageKeys = {})
        => response[t] = ErrorResponse(400, "No image provided. Use imageData or imageUrl")

\* C2: every failure of the fetch on the imageUrl path (host unreachable,
\* non-success status, body that is no image) is answered 400 with an error
\* field, never 500.
C2_FetchFailuresAre400 ==
    \A t \in Threads :
        (Answered(t) /\ caught[t].origin = "fetch_image_from_url")
        => (response[t].status = 400 /\ HasErrorBody(t))

\* C3: for every width and height >= 1 with max(width, height) > max_size,
\* resize_if_needed returns a size whose larger dimension is max_size and
\* whose smaller dimension is within 1 pixel of max_size * smaller / larger.
C3_LargerDimensionIsCap ==
    (probe.pc = "done" /\ ProbeOverCap)
    => /\ ~probe.raised
       /\ Max(probe.size[1], probe.size[2]) = probe.max_size
       /\ Abs(ProbeNewSmall * ProbeLarge - probe.max_size * ProbeSmall) <= ProbeLarge

\* C4, as the specification states it: when resize_if_needed scales down, the
\* new smaller dimension is max_size * smaller / larger rounded to the
\* nearest integer (either neighbour accepted at an exact half).
C4_SmallerDimensionRounded ==
    (probe.pc = "done" /\ ProbeOverCap /\ ~probe.raised)
    => 2 * Abs(ProbeNewSmall * ProbeLarge - probe.max_size * ProbeSmall) <= ProbeLarge

\* C4, amended: when resize_if_needed scales down, the new larger dimension
\* is max_size and the new smaller dimension is max_size * smaller / larger
\* truncated toward zero: it is the greatest integer not above that quotient.
C4_SmallerDimensionTruncated ==
    (probe.pc = "done" /\ ProbeOverCap /\ ~probe.raised)
    => /\ ProbeNewLarge = probe.max_size
       /\ ProbeNewSmall * ProbeLarge <= probe.max_size * ProbeSmall
       /\ probe.max_size * ProbeSmall < (ProbeNewSmall + 1) * ProbeLarge

\* C4 witness: a scaled-down result whose smaller dimension lies more than
\* half a pixel below the quotient, so truncation and rounding differ.
C4_TruncationDiffersFromRounding ==
    /\ probe.pc = "done" /\ ProbeOverCap /\ ~probe.raised
    /\ 2 * (probe.max_size * ProbeSmall - ProbeNewSmall * ProbeLarge) > ProbeLarge

\* C5: for every width, height and max_size >= 1, resize_if_needed returns
\* without error an image whose dimensions are both >= 1 and <= max_size.
C5_ResizeNeverFails ==
    probe.pc = "done"
    => /\ ~probe.raised
       /\ probe.size[1] >= 1 /\ probe.size[1] <= probe.max_size
       /\ probe.size[2] >= 1 /\ probe.size[2] <= probe.max_size

\* C6: an image whose width and height are both <= MAX_IMAGE_SIZE leaves size
\* normalisation unchanged, and a successful base64 response for it reports
\* processedSize equal to originalSize.
C6_WithinCapUnchanged ==
    \A t \in Threads :
        /\ (/\ pc[t] \in {"remove", "encode"}
            /\ original_size[t][1] <= MAX_IMAGE_SIZE
            /\ original_size[t][2] <= MAX_IMAGE_SIZE)
           => image[t].size = original_size[t]
        /\ (/\ Answered(t)
            /\ response[t].status = 200
            /\ response[t].kind = "json"
            /\ response[t].body.originalSize[1] <= MAX_IMAGE_SIZE
            /\ response[t].body.originalSize[2] <= MAX_IMAGE_SIZE)
           => response[t].body.processedSize = response[t].body.originalSize

\* C6 witness: a successful base64 response for an image with a dimension
\* exactly equal to the configured maximum.
C6_AtCapAnswered ==
    \E t \in Threads :
        /\ Answered(t)
        /\ response[t].status = 200
        /\ response[t].kind = "json"
        /\ MAX_IMAGE_SIZE \in {response[t].body.originalSize[1],
                               response[t].body.originalSize[2]}

\* C7: every failing POST /remove-bg is answered with a JSON body holding the
\* single string field error, with status 400 or 500; the status is 400 only
\* when the payload names no image source or the failure was raised by the
\* fetch, and 500 for every other failure.
C7_ErrorShapeAndStatus ==
    \A t \in Threads :
        /\ Answered(t)
           => (response[t].status = 200 /\ response[t].kind \in {"json", "png"}
               /\ caught[t] = NoException)
              \/ (response[t].status \in {400, 500} /\ HasErrorBody(t))
        /\ Failed(t)
           => /\ response[t].status = 400
                 => (data[t].keys \cap ImageKeys = {}
                     \/ caught[t].origin = "fetch_image_from_url")
              /\ caught[t].origin \in {"get_json", "decode_base64_image",
                                       "resize_if_needed", "remove", "save"}
                 => response[t].status = 500

\* C7 witness: one thread answered 500 after the model raised while another
\* was answered 400 for an unreachable URL.
C7_BothStatusesSeen ==
    \E t, u \in Threads :
        /\ Failed(t) /\ caught[t].origin = "remove" /\ response[t].status = 500
        /\ Failed(u) /\ caught[u].cls = "ConnectionError" /\ response[u].status = 400

\* C8: the model identifier and the session are assigned once, by the module
\* import, before any request is handled; no handler step changes them or the
\* environment; and every /health response is 200 with model equal to the
\* value configured at startup.
C8_SessionSetOnce ==
    /\ [](\A t \in Threads : pc[t] # "idle" =>
            /\ mainpc = "serving"
            /\ session = new_session(ConfiguredModelName(environ))
            /\ MODEL_NAME = ConfiguredModelName(environ))
    /\ [][mainpc # "import" =>
            /\ session' = session
            /\ MODEL_NAME' = MODEL_NAME
            /\ MAX_IMAGE_SIZE' = MAX_IMAGE_SIZE
            /\ environ' = environ]_vars
    /\ [](\A t \in Threads : response[t].kind = "health" =>
            /\ response[t].status = 200
            /\ response[t].body.model = ConfiguredModelName(environ))

\* C8 witness: /health answered with a model configured through the
\* environment while another thread is between size normalisation and the
\* model call.
C8_HealthDuringRemoval ==
    \E t, u \in Threads :
        /\ response[t].kind = "health" /\ pc[t] = "done"
        /\ response[t].body.model = "birefnet-general"
        /\ pc[u] = "remove"

\* the order in which the specification says the stages run
C9_Order == <<"resolve", "mode", "size", "remove", "encode">>

\* the stage in which each call of the handler runs
C9_StageOf(origin) ==
    CASE origin \in {"get_json", "decode_base64_image", "fetch_image_from_url"} -> "resolve"
      [] origin = "resize_if_needed" -> "size"
      [] origin = "remove" -> "remove"
      [] origin = "save" -> "encode"

\* C9: within one request the stages run in the order input resolution, mode
\* normalisation, size normalisation, model invocation, output encoding, each
\* at most once; the fetch is attempted at most once; the model is invoked
\* only after input resolution and size normalisation succeeded; and a stage
\* that fails is the last stage to run.
C9_StagesInOrder ==
    \A t \in Threads :
        /\ Len(stages[t]) <= Len(C9_Order)
        /\ \A i \in 1..Len(stages[t]) : stages[t][i] = C9_Order[i]
        /\ fetches[t] <= 1
        /\ fetches[t] = 1 => Len(stages[t]) >= 1
        /\ (\E i \in 1..Len(stages[t]) : stages[t][i] = "remove")
           => /\ image[t] # NoImage \/ pc[t] = "done"
              /\ caught[t].origin \notin {"get_json", "decode_base64_image",
                                          "fetch_image_from_url", "resize_if_needed"}
        /\ caught[t] # NoException
           => /\ pc[t] = "done"
              /\ stages[t][Len(stages[t])] = C9_StageOf(caught[t].origin)

\* C9 witness: one request went through all five stages and was answered 200
\* while another stopped at a failed fetch.
C9_FullRunAndFailedFetch ==
    \E t, u \in Threads :
        /\ Answered(t) /\ stages[t] = C9_Order /\ response[t].status = 200
        /\ Answered(u) /\ fetches[u] = 1 /\ stages[u] = <<"resolve">>
        /\ caught[u].origin = "fetch_image_from_url"

\* C10: a payload holding both imageData and imageUrl is not rejected as
\* missing input, makes no outbound fetch, and when decoding the inline data
\* fails the request ends there with that failure reported.
C10_InlineWinsOverUrl ==
    \A t \in Threads :
        (data[t].kind = "object" /\ ImageKeys \subseteq data[t].keys /\ pc[t] # "resolve")
        => /\ fetches[t] = 0
           /\ caught[t].origin # "fetch_image_from_url"
           /\ response[t].status # 400
           /\ (pc[t] = "done" /\ stages[t] = <<"resolve">>)
              => /\ caught[t].origin = "decode_base64_image"
                 /\ response[t] = ErrorResponse(500, caught[t].cls)

\* C10 witness: a payload with both keys whose inline data failed to decode.
C10_BothKeysDecodeFailed ==
    \E t \in Threads :
        /\ Answered(t) /\ ImageKeys \subseteq data[t].keys
        /\ caught[t].cls = "binascii.Error"
        /\ response[t].status = 500

====
